---------------------------- MODULE Spec2Model ----------------------------
(***************************************************************************)
(* Model of yabridge's wire schema, src/common/serialization.h: the        *)
(* serialize() functions of every message type, run through bitsery's      *)
(* Serializer (encode) and Deserializer (decode).                           *)
(*                                                                         *)
(* Representation.  A byte string is kept run-length encoded: a sequence   *)
(* of runs <<n, b>> (n > 0 copies of byte b), adjacent runs holding         *)
(* different bytes.  A 50 MiB blob is then one run, and the encoders and    *)
(* decoders below work on the real limits of the code.  A sequence of      *)
(* fixed-size elements (floats, VstEvents) is kept the same way, as runs    *)
(* <<n, element>>.  A 32-bit integer is a TLA+ integer in -2^31..2^31-1    *)
(* (a float is its IEEE-754 bit pattern read as such an integer), a 64-bit  *)
(* integer is the pair <<lo, hi>> of its two 32-bit halves.                 *)
(***************************************************************************)
EXTENDS Integers, Sequences, FiniteSets, TLC

(***************************************************************************)
(* Limits (serialization.h:37-58).                                         *)
(***************************************************************************)
max_audio_channels == 32

max_buffer_size == 16384

max_string_length == 64

\* 50 << 20
binary_buffer_size == 50 * 1048576

\* sizeof(size_t) of a process whose pointers are `bits` wide.  The native
\* plugin is always a 64-bit build (the static_assert of lines 68-73 holds
\* only where __WINE__ is not defined); the Wine host is built with -m64 or,
\* as yabridge-host-32, with -m32.
sizeof_size_t(bits) == bits \div 8

\* constexpr size_t max_midi_events = max_buffer_size / sizeof(size_t);
max_midi_events(bits) == max_buffer_size \div sizeof_size_t(bits)

(***************************************************************************)
(* Run-length encoded byte strings.                                        *)
(***************************************************************************)
Rep(n, b) == IF n <= 0 THEN <<>> ELSE << <<n, b>> >>

\* Concatenation, merging the runs that meet when they hold the same value.
Cat(a, b) ==
    IF a = <<>> THEN b
    ELSE IF b = <<>> THEN a
    ELSE IF a[Len(a)][2] = b[1][2]
         THEN SubSeq(a, 1, Len(a) - 1)
              \o << <<a[Len(a)][1] + b[1][1], b[1][2]>> >>
              \o Tail(b)
         ELSE a \o b

\* The number of bytes (summed by halves: the recursion stays shallow).
RECURSIVE BLen(_)
BLen(a) ==
    IF a = <<>> THEN 0
    ELSE IF Len(a) = 1 THEN a[1][1]
    ELSE BLen(SubSeq(a, 1, Len(a) \div 2))
         + BLen(SubSeq(a, Len(a) \div 2 + 1, Len(a)))

\* The first n bytes (all of a, when it is shorter), found by halving.
RECURSIVE Take(_, _)
Take(a, n) ==
    IF n <= 0 \/ a = <<>> THEN <<>>
    ELSE IF Len(a) = 1 THEN << <<IF a[1][1] >= n THEN n ELSE a[1][1], a[1][2]>> >>
    ELSE LET h == Len(a) \div 2
             low == SubSeq(a, 1, h)
             m == BLen(low)
         IN  IF n <= m THEN Take(low, n)
             ELSE low \o Take(SubSeq(a, h + 1, Len(a)), n - m)

\* What follows the first n bytes.
RECURSIVE Drop(_, _)
Drop(a, n) ==
    IF n <= 0 \/ a = <<>> THEN a
    ELSE IF Len(a) = 1
         THEN IF a[1][1] > n THEN << <<a[1][1] - n, a[1][2]>> >> ELSE <<>>
    ELSE LET h == Len(a) \div 2
             low == SubSeq(a, 1, h)
             m == BLen(low)
         IN  IF n >= m THEN Drop(SubSeq(a, h + 1, Len(a)), n - m)
             ELSE Drop(low, n) \o SubSeq(a, h + 1, Len(a))

\* The i-th byte (1-based) of a byte string at least i bytes long (and the
\* i-th element of any run-length encoded list).
RECURSIVE ByteAt(_, _)
ByteAt(a, i) == IF i <= a[1][1] THEN a[1][2] ELSE ByteAt(Tail(a), i - a[1][1])

\* c copies of the byte string s, one after the other (built by doubling).
RECURSIVE Times(_, _)
Times(s, c) ==
    IF c <= 0 \/ s = <<>> THEN <<>>
    ELSE IF Len(s) = 1 THEN << <<c * s[1][1], s[1][2]>> >>
    ELSE IF c = 1 THEN s
    ELSE LET h == Times(s, c \div 2)
         IN  Cat(Cat(h, h), IF c % 2 = 1 THEN s ELSE <<>>)

\* Appends the run <<n, e>> to a run-length encoded list.
PushRun(runs, n, e) ==
    IF n <= 0 THEN runs
    ELSE IF runs # <<>> /\ runs[Len(runs)][2] = e
         THEN SubSeq(runs, 1, Len(runs) - 1) \o << <<runs[Len(runs)][1] + n, e>> >>
         ELSE Append(runs, <<n, e>>)

\* The bytes of a run-length encoded list of elements that are byte strings.
RECURSIVE Flatten(_)
Flatten(runs) ==
    IF runs = <<>> THEN <<>>
    ELSE Cat(Times(runs[1][2], runs[1][1]), Flatten(Tail(runs)))

\* The number of elements of a run-length encoded list.
Count(runs) == BLen(runs)

\* A byte string whose length is a multiple of k, cut into its k-byte
\* elements (what reading one k-byte element after the other yields).
RECURSIVE Chunks(_, _)
Chunks(bs, k) ==
    IF bs = <<>> THEN <<>>
    ELSE LET q == IF bs[1][1] >= k THEN bs[1][1] \div k ELSE 1
             e == Take(bs, k)
             rest == Chunks(Drop(bs, q * k), k)
         IN  IF rest # <<>> /\ rest[1][2] = e
             THEN << <<q + rest[1][1], e>> >> \o Tail(rest)
             ELSE << <<q, e>> >> \o rest

(***************************************************************************)
(* Fixed-width values, little-endian and two's complement (bitsery's       *)
(* default configuration on x86, no byte swap).                            *)
(***************************************************************************)
Bytes4(x) ==
    Cat(Cat(Cat(Rep(1, x % 256), Rep(1, (x \div 256) % 256)),
            Rep(1, (x \div 65536) % 256)),
        Rep(1, (x \div 16777216) % 256))

Bytes2(x) == Cat(Rep(1, x % 256), Rep(1, (x \div 256) % 256))

\* bs holds exactly 4 bytes.
ToI32(bs) ==
    LET b3 == ByteAt(bs, 4)
    IN  ByteAt(bs, 1) + 256 * ByteAt(bs, 2) + 65536 * ByteAt(bs, 3)
        + 16777216 * (IF b3 >= 128 THEN b3 - 256 ELSE b3)

\* bs holds exactly 2 bytes.
ToI16(bs) ==
    LET b1 == ByteAt(bs, 2)
    IN  ByteAt(bs, 1) + 256 * (IF b1 >= 128 THEN b1 - 256 ELSE b1)

Bytes8(v) == Cat(Bytes4(v[1]), Bytes4(v[2]))

ToI64(bs) == <<ToI32(Take(bs, 4)), ToI32(Drop(bs, 4))>>

(***************************************************************************)
(* bitsery's output side.  A writer is [buf, ok, chk, bits]: the bytes     *)
(* written so far, whether the process is still running, whether the build *)
(* has assert() enabled (Meson's default: b_ndebug=false), and the pointer *)
(* width of the writing process.  The Serializer enforces a maxSize with   *)
(* assert(size <= maxSize): with assertions enabled the process aborts and *)
(* nothing is sent, without them the oversized container is written.       *)
(***************************************************************************)
NewWriter(chk, bits) == [bits |-> bits, chk |-> chk, buf |-> <<>>, ok |-> TRUE]

writeBytes(w, bs) == [w EXCEPT !.buf = Cat(@, bs)]

assertion(w, cond) == IF w.chk /\ ~cond THEN [w EXCEPT !.ok = FALSE] ELSE w

\* bitsery::details::writeSize: 1 byte below 0x80, 2 bytes below 0x4000,
\* else 4 bytes (sizes here stay below 0x40000000).
writeSize(w, size) ==
    IF size < 128 THEN writeBytes(w, Rep(1, size))
    ELSE IF size < 16384
         THEN writeBytes(w, Cat(Rep(1, (size \div 256) + 128), Rep(1, size % 256)))
         ELSE writeBytes(w, Cat(Cat(Rep(1, (size \div 16777216) + 192),
                                    Rep(1, (size \div 65536) % 256)),
                                Bytes2(size % 65536)))

value2b(w, x) == writeBytes(w, Bytes2(x))
value4b(w, x) == writeBytes(w, Bytes4(x))
value8b(w, v) == writeBytes(w, Bytes8(v))

\* Serializer::boolValue without bit packing: one byte, 0 or 1.
boolValue(w, b) == writeBytes(w, Rep(1, IF b THEN 1 ELSE 0))

\* container1b of a fixed-size array: the elements, no length prefix.
array1b(w, bs) == writeBytes(w, bs)

\* container1b(vector<uint8_t>, maxSize) and text1b(std::string, maxSize).
container1b(w, bs, maxSize) ==
    writeBytes(writeSize(assertion(w, BLen(bs) <= maxSize), BLen(bs)), bs)

text1b(w, str, maxSize) == container1b(w, str, maxSize)

\* container4b(vector<float>, maxSize): the floats as runs <<n, bits>>.
container4b(w, fl, maxSize) ==
    LET n == Count(fl)
        bs == Flatten([i \in 1..Len(fl) |-> <<fl[i][1], Bytes4(fl[i][2])>>])
    IN  writeBytes(writeSize(assertion(w, n <= maxSize), n), bs)

(***************************************************************************)
(* bitsery's input side.  A reader is [buf, err, bits, vals]: the bytes not *)
(* yet read, the first error met, the pointer width of the reading process  *)
(* and the values read so far, the latest last.  Once an error is set the   *)
(* buffer is dropped and every read yields zeros.  Each read pushes its     *)
(* value on vals; an object's function replaces the values of its fields    *)
(* by the object.                                                           *)
(***************************************************************************)
NewReader(bs, bits) ==
    [bits |-> bits, buf |-> bs, err |-> "NoError", vals |-> <<>>]

Top(r) == r.vals[Len(r.vals)]

\* The i-th of the last k values read.
At(r, k, i) == r.vals[Len(r.vals) - k + i]

Push(r, v) == [r EXCEPT !.vals = Append(@, v)]

Pop(r, k) == [r EXCEPT !.vals = SubSeq(@, 1, Len(@) - k)]

Retop(r, v) == [r EXCEPT !.vals[Len(r.vals)] = v]

setError(r, e) ==
    IF r.err = "NoError" THEN [r EXCEPT !.buf = <<>>, !.err = e] ELSE r

readBytes(r, n) ==
    IF r.err = "NoError" /\ BLen(r.buf) >= n
    THEN [r EXCEPT !.buf = Drop(@, n), !.vals = Append(@, Take(r.buf, n))]
    ELSE Push(setError(r, "DataOverflow"), Rep(n, 0))

byteTop(r) == Retop(r, ByteAt(Top(r), 1))

readByte(r) == byteTop(readBytes(r, 1))

\* The two-byte form: the high byte's low 7 bits, then the low byte.
readSize_short(r) == Push(Pop(r, 2), (At(r, 2, 1) % 128) * 256 + At(r, 2, 2))

\* The four-byte form: the high byte's low 6 bits, a byte, a 16-bit word.
readSize_long(r) ==
    Push(Pop(r, 3), ((At(r, 3, 1) % 64) * 256 + At(r, 3, 2)) * 65536
                    + ByteAt(At(r, 3, 3), 1) + 256 * ByteAt(At(r, 3, 3), 2))

readSize_raw(r) ==
    IF Top(r) < 128 THEN r
    ELSE IF (Top(r) \div 64) % 2 = 1
         THEN readSize_long(readBytes(readByte(r), 2))
         ELSE readSize_short(readByte(r))

readSize_check(r, maxSize) ==
    IF Top(r) > maxSize THEN Retop(setError(r, "InvalidData"), 0) ELSE r

\* bitsery::details::readSize with CheckDataErrors: a size above maxSize
\* sets InvalidData and reads as 0; a size equal to maxSize is accepted.
readSize(r, maxSize) == readSize_check(readSize_raw(readByte(r)), maxSize)

int16Top(r) == Retop(r, ToI16(Top(r)))
int32Top(r) == Retop(r, ToI32(Top(r)))
int64Top(r) == Retop(r, ToI64(Top(r)))

read2b(r) == int16Top(readBytes(r, 2))
read4b(r) == int32Top(readBytes(r, 4))
read8b(r) == int64Top(readBytes(r, 8))

boolTop(r) ==
    Retop(IF Top(r) > 1 THEN setError(r, "InvalidData") ELSE r, Top(r) = 1)

\* Deserializer::boolValue: a byte above 1 is InvalidData.
readBool(r) == boolTop(readByte(r))

readArray1b(r, n) == readBytes(r, n)

\* The container's elements, its size being the value read last.
readSized(r, k) == readBytes(Pop(r, 1), k * Top(r))

readContainer1b(r, maxSize) == readSized(readSize(r, maxSize), 1)

readText1b(r, maxSize) == readContainer1b(r, maxSize)

ToFloats(ch) == [i \in 1..Len(ch) |-> <<ch[i][1], ToI32(ch[i][2])>>]

floatsTop(r) == Retop(r, ToFloats(Chunks(Top(r), 4)))

readContainer4b(r, maxSize) == floatsTop(readSized(readSize(r, maxSize), 4))

chunksTop(r, k) == Retop(r, Chunks(Top(r), k))

\* The elements that lie wholly inside the buffer, then zeros.
readElements_short(r, n, k, full) ==
    Push(setError(r, "DataOverflow"),
         Chunks(Cat(Take(r.buf, full * k), Rep((n - full) * k, 0)), k))

\* A container of n elements of k bytes each, read element by element: the
\* elements that lie wholly inside the buffer are read, the first that does
\* not sets DataOverflow, and it and all later ones are zero.
readElements(r, n, k) ==
    IF r.err = "NoError" /\ BLen(r.buf) < n * k
    THEN readElements_short(r, n, k, BLen(r.buf) \div k)
    ELSE chunksTop(readBytes(r, n * k), k)

(***************************************************************************)
(* Sizes of the fixed arrays of the plugin ABI structs.  The structs are   *)
(* declared in vestige/aeffectx.h and vst24.h, headers of the repository   *)
(* that serialization.h includes (lines 26 and 30).                        *)
(***************************************************************************)
VstEvent_dump_size == 32
VstIOProperties_data_size == 128
VstMidiKeyName_data_size == 80
label_size == 64
shortLabel_size == 8
categoryLabel_size == 24
future_size == 16
empty3_size == 12

(***************************************************************************)
(* serialize(S&, AEffect&), lines 91-105.  An AEffect is a record of its   *)
(* twelve serialized fields and `ptrs`, its pointer-valued fields.         *)
(***************************************************************************)
NullPtrs == [dispatcher |-> 0, process |-> 0, setParameter |-> 0,
             getParameter |-> 0, ptr3 |-> 0, user |-> 0,
             processReplacing |-> 0]

DefaultAEffect ==
    [magic |-> 0, numPrograms |-> 0, numParams |-> 0, numInputs |-> 0,
     numOutputs |-> 0, flags |-> 0, initialDelay |-> 0, empty3a |-> 0,
     empty3b |-> 0, unkown_float |-> 0, uniqueID |-> 0, version |-> 0,
     ptrs |-> NullPtrs]

\* Mutant: the dispatcher pointer is serialized with the numeric fields.
serialize_AEffect_ptr(w, plugin) ==
    value4b(value4b(value4b(value4b(value4b(value4b(value4b(value4b(value4b(
    value4b(value4b(value4b(value4b(w,
        plugin.magic), plugin.numPrograms), plugin.numParams),
        plugin.numInputs), plugin.numOutputs), plugin.flags),
        plugin.initialDelay), plugin.empty3a), plugin.empty3b),
        plugin.unkown_float), plugin.uniqueID), plugin.version),
        plugin.ptrs.dispatcher)

serialize_AEffect(w, plugin) ==
    value4b(value4b(value4b(value4b(value4b(value4b(value4b(value4b(value4b(
    value4b(value4b(value4b(w,
        plugin.magic), plugin.numPrograms), plugin.numParams),
        plugin.numInputs), plugin.numOutputs), plugin.flags),
        plugin.initialDelay), plugin.empty3a), plugin.empty3b),
        plugin.unkown_float), plugin.uniqueID), plugin.version)

\* The existing `plugin` with the twelve values read last stored in it.
AEffect_fields(r, plugin) ==
    Push(Pop(r, 12),
         [plugin EXCEPT
            !.magic = At(r, 12, 1), !.numPrograms = At(r, 12, 2),
            !.numParams = At(r, 12, 3), !.numInputs = At(r, 12, 4),
            !.numOutputs = At(r, 12, 5), !.flags = At(r, 12, 6),
            !.initialDelay = At(r, 12, 7), !.empty3a = At(r, 12, 8),
            !.empty3b = At(r, 12, 9), !.unkown_float = At(r, 12, 10),
            !.uniqueID = At(r, 12, 11), !.version = At(r, 12, 12)])

\* The same function run by the Deserializer, into the existing `plugin`.
deserialize_AEffect(r, plugin) ==
    AEffect_fields(
        read4b(read4b(read4b(read4b(read4b(read4b(read4b(read4b(read4b(
        read4b(read4b(read4b(r)))))))))))), plugin)

(***************************************************************************)
(* serialize() of the descriptor structs, lines 107-159.                   *)
(***************************************************************************)
serialize_VstIOProperties(w, props) == array1b(w, props.data)

dataTop(r) == Retop(r, [data |-> Top(r)])

deserialize_VstIOProperties(r) ==
    dataTop(readArray1b(r, VstIOProperties_data_size))

serialize_VstMidiKeyName(w, key_name) == array1b(w, key_name.data)

deserialize_VstMidiKeyName(r) ==
    dataTop(readArray1b(r, VstMidiKeyName_data_size))

serialize_VstParameterProperties(w, props) ==
    array1b(array1b(value2b(value2b(value2b(value2b(array1b(value4b(value4b(
    value4b(value4b(value4b(array1b(value4b(value4b(value4b(w,
        props.stepFloat), props.smallStepFloat), props.largeStepFloat),
        props.label), props.flags), props.minInteger), props.maxInteger),
        props.stepInteger), props.largeStepInteger), props.shortLabel),
        props.displayIndex), props.category), props.numParametersInCategory),
        props.reserved), props.categoryLabel), props.future)

VstParameterProperties_fields(r) ==
    Push(Pop(r, 16),
         [flags |-> At(r, 16, 5),
          stepFloat |-> At(r, 16, 1), smallStepFloat |-> At(r, 16, 2),
          largeStepFloat |-> At(r, 16, 3), label |-> At(r, 16, 4),
          minInteger |-> At(r, 16, 6),
          maxInteger |-> At(r, 16, 7), stepInteger |-> At(r, 16, 8),
          largeStepInteger |-> At(r, 16, 9), shortLabel |-> At(r, 16, 10),
          displayIndex |-> At(r, 16, 11), category |-> At(r, 16, 12),
          numParametersInCategory |-> At(r, 16, 13),
          reserved |-> At(r, 16, 14), categoryLabel |-> At(r, 16, 15),
          future |-> At(r, 16, 16)])

deserialize_VstParameterProperties(r) ==
    VstParameterProperties_fields(
        readArray1b(readArray1b(read2b(read2b(read2b(read2b(readArray1b(
        read4b(read4b(read4b(read4b(read4b(readArray1b(read4b(read4b(read4b(
            r))),
            label_size)))))),
            shortLabel_size))))),
            categoryLabel_size),
            future_size))

serialize_VstRect(w, rect) ==
    value2b(value2b(value2b(value2b(w, rect.top), rect.left), rect.right),
            rect.bottom)

VstRect_fields(r) ==
    Push(Pop(r, 4), [top |-> At(r, 4, 1), left |-> At(r, 4, 2),
                     right |-> At(r, 4, 3), bottom |-> At(r, 4, 4)])

deserialize_VstRect(r) == VstRect_fields(read2b(read2b(read2b(read2b(r)))))

serialize_VstTimeInfo(w, time_info) ==
    value4b(array1b(value4b(value4b(value8b(value8b(value8b(value8b(value8b(
    value8b(value8b(value8b(w,
        time_info.samplePos), time_info.sampleRate), time_info.nanoSeconds),
        time_info.ppqPos), time_info.tempo), time_info.barStartPos),
        time_info.cycleStartPos), time_info.cycleEndPos),
        time_info.timeSigNumerator), time_info.timeSigDenominator),
        time_info.empty3), time_info.flags)

VstTimeInfo_fields(r) ==
    Push(Pop(r, 12),
         [flags |-> At(r, 12, 12),
          samplePos |-> At(r, 12, 1), sampleRate |-> At(r, 12, 2),
          nanoSeconds |-> At(r, 12, 3), ppqPos |-> At(r, 12, 4),
          tempo |-> At(r, 12, 5), barStartPos |-> At(r, 12, 6),
          cycleStartPos |-> At(r, 12, 7), cycleEndPos |-> At(r, 12, 8),
          timeSigNumerator |-> At(r, 12, 9),
          timeSigDenominator |-> At(r, 12, 10),
          empty3 |-> At(r, 12, 11)])

deserialize_VstTimeInfo(r) ==
    VstTimeInfo_fields(
        read4b(readArray1b(read4b(read4b(read8b(read8b(read8b(read8b(read8b(
        read8b(read8b(read8b(r)))))))))), empty3_size)))

(***************************************************************************)
(* std::variant values.  A payload is [type, d]: the alternative it holds  *)
(* and that alternative's data (<<>> for nullptr and the marker structs).  *)
(* bitsery::ext::StdVariant writes variant::index() with writeSize and     *)
(* then runs the overload that takes the alternative's type.               *)
(***************************************************************************)
\* The position (1-based) of type t in a list of types.
PositionOf(types, t) == CHOOSE i \in 1..Len(types) : types[i] = t

\* using EventPayload = std::variant<...>, lines 265-277.
EventPayload ==
    <<"nullptr_t", "string", "vector_uint8_t", "native_size_t", "AEffect",
      "DynamicVstEvents", "WantsChunkBuffer", "VstIOProperties",
      "VstMidiKeyName", "VstParameterProperties", "WantsVstRect",
      "WantsVstTimeInfo", "WantsString">>

\* The parameter types of the lambdas given to StdVariant, in the order of
\* lines 283-303.
EventPayloadOverloads ==
    <<"nullptr_t", "string", "vector_uint8_t", "native_size_t", "AEffect",
      "DynamicVstEvents", "VstIOProperties", "VstMidiKeyName",
      "VstParameterProperties", "WantsChunkBuffer", "WantsVstRect",
      "WantsVstTimeInfo", "WantsString">>

DefaultPayload == [type |-> "nullptr_t", d |-> <<>>]

\* s.container(events.events, max_midi_events, [](S& s, VstEvent& event) {
\*     s.container1b(event.dump); });   A VstEvent is its dump.
serialize_DynamicVstEvents(w, events) ==
    writeBytes(writeSize(assertion(w, Count(events) <= max_midi_events(w.bits)),
                         Count(events)),
               Flatten(events))

\* The batch's events, its size being the value read last.
readEvents(r) == readElements(Pop(r, 1), Top(r), VstEvent_dump_size)

deserialize_DynamicVstEvents(r) ==
    readEvents(readSize(r, max_midi_events(r.bits)))

\* Mutant: the text's maximum size is that of a chunk.
EventPayloadWrite_chunk(i, w, d) ==
    CASE i = 1 -> w
      [] i = 2 -> text1b(w, d, binary_buffer_size)
      [] i = 3 -> container1b(w, d, binary_buffer_size)
      [] i = 4 -> value8b(w, d)
      [] i = 5 -> serialize_AEffect(w, d)
      [] i = 6 -> serialize_DynamicVstEvents(w, d)
      [] i = 7 -> serialize_VstIOProperties(w, d)
      [] i = 8 -> serialize_VstMidiKeyName(w, d)
      [] i = 9 -> serialize_VstParameterProperties(w, d)
      [] OTHER -> w

\* The i-th lambda of lines 283-303, writing.
EventPayloadWrite(i, w, d) ==
    CASE i = 1 -> w
      [] i = 2 -> text1b(w, d, max_string_length)
      [] i = 3 -> container1b(w, d, binary_buffer_size)
      [] i = 4 -> value8b(w, d)
      [] i = 5 -> serialize_AEffect(w, d)
      [] i = 6 -> serialize_DynamicVstEvents(w, d)
      [] i = 7 -> serialize_VstIOProperties(w, d)
      [] i = 8 -> serialize_VstMidiKeyName(w, d)
      [] i = 9 -> serialize_VstParameterProperties(w, d)
      [] OTHER -> w

\* The i-th lambda of lines 283-303, reading into a value-initialised
\* object of the alternative's type.
EventPayloadRead(i, r) ==
    CASE i = 2 -> readText1b(r, max_string_length)
      [] i = 3 -> readContainer1b(r, binary_buffer_size)
      [] i = 4 -> read8b(r)
      [] i = 5 -> deserialize_AEffect(r, DefaultAEffect)
      [] i = 6 -> deserialize_DynamicVstEvents(r)
      [] i = 7 -> deserialize_VstIOProperties(r)
      [] i = 8 -> deserialize_VstMidiKeyName(r)
      [] i = 9 -> deserialize_VstParameterProperties(r)
      [] OTHER -> Push(r, <<>>)

\* The variant set to alternative t holding the value read last.
in_place(r, t) == Retop(r, [type |-> t, d |-> Top(r)])

\* StdVariant::execIndex on the index read last.
EventPayload_execIndex(r, payload) ==
    IF Top(r) + 1 \in 1..Len(EventPayload)
    THEN in_place(EventPayloadRead(PositionOf(EventPayloadOverloads,
                                              EventPayload[Top(r) + 1]),
                                   Pop(r, 1)),
                  EventPayload[Top(r) + 1])
    ELSE Retop(r, payload)

\* Mutant: the discriminant written is the position of the handler in the
\* list of lambdas instead of the position of the type in the variant.
serialize_EventPayload_byhandler(w, payload) ==
    EventPayloadWrite(PositionOf(EventPayloadOverloads, payload.type),
                      writeSize(w, PositionOf(EventPayloadOverloads,
                                              payload.type) - 1),
                      payload.d)

\* serialize(S&, EventPayload&), lines 279-304, writing.
serialize_EventPayload(w, payload) ==
    EventPayloadWrite(PositionOf(EventPayloadOverloads, payload.type),
                      writeSize(w, PositionOf(EventPayload, payload.type) - 1),
                      payload.d)

\* StdVariant::deserialize: the index is read with readSize(index,
\* sizeof...(Ts)); execIndex runs the handler of the alternative at that
\* index, and leaves `payload` as it is when no alternative has the index.
deserialize_EventPayload(r, payload) ==
    EventPayload_execIndex(readSize(r, Len(EventPayload)), payload)

\* using EventResposnePayload = std::variant<...>, lines 354-362.
EventResposnePayload ==
    <<"nullptr_t", "string", "vector_uint8_t", "AEffect", "VstIOProperties",
      "VstMidiKeyName", "VstParameterProperties", "VstRect", "VstTimeInfo">>

\* The parameter types of the lambdas of lines 368-380.
EventResposnePayloadOverloads ==
    <<"nullptr_t", "string", "vector_uint8_t", "AEffect", "VstIOProperties",
      "VstMidiKeyName", "VstParameterProperties", "VstRect", "VstTimeInfo">>

EventResposnePayloadWrite(i, w, d) ==
    CASE i = 1 -> w
      [] i = 2 -> text1b(w, d, max_string_length)
      [] i = 3 -> container1b(w, d, binary_buffer_size)
      [] i = 4 -> serialize_AEffect(w, d)
      [] i = 5 -> serialize_VstIOProperties(w, d)
      [] i = 6 -> serialize_VstMidiKeyName(w, d)
      [] i = 7 -> serialize_VstParameterProperties(w, d)
      [] i = 8 -> serialize_VstRect(w, d)
      [] i = 9 -> serialize_VstTimeInfo(w, d)
      [] OTHER -> w

EventResposnePayloadRead(i, r) ==
    CASE i = 2 -> readText1b(r, max_string_length)
      [] i = 3 -> readContainer1b(r, binary_buffer_size)
      [] i = 4 -> deserialize_AEffect(r, DefaultAEffect)
      [] i = 5 -> deserialize_VstIOProperties(r)
      [] i = 6 -> deserialize_VstMidiKeyName(r)
      [] i = 7 -> deserialize_VstParameterProperties(r)
      [] i = 8 -> deserialize_VstRect(r)
      [] i = 9 -> deserialize_VstTimeInfo(r)
      [] OTHER -> Push(r, <<>>)

EventResposnePayload_execIndex(r, payload) ==
    IF Top(r) + 1 \in 1..Len(EventResposnePayload)
    THEN in_place(EventResposnePayloadRead(
                      PositionOf(EventResposnePayloadOverloads,
                                 EventResposnePayload[Top(r) + 1]),
                      Pop(r, 1)),
                  EventResposnePayload[Top(r) + 1])
    ELSE Retop(r, payload)

\* serialize(S&, EventResposnePayload&), lines 364-381, writing.
serialize_EventResposnePayload(w, payload) ==
    EventResposnePayloadWrite(
        PositionOf(EventResposnePayloadOverloads, payload.type),
        writeSize(w, PositionOf(EventResposnePayload, payload.type) - 1),
        payload.d)

deserialize_EventResposnePayload(r, payload) ==
    EventResposnePayload_execIndex(readSize(r, Len(EventResposnePayload)),
                                   payload)

(***************************************************************************)
(* The messages.                                                           *)
(***************************************************************************)
\* Event::serialize, lines 328-339, writing.
Event_serialize(w, e) ==
    serialize_EventPayload(
        value4b(value8b(value4b(value4b(w, e.opcode), e.index), e.value),
                e.option),
        e.payload)

DefaultEvent ==
    [payload |-> DefaultPayload,
     opcode |-> 0, index |-> 0, value |-> <<0, 0>>, option |-> 0]

\* Event::serialize reading, into the existing Event `e`.
Event_fields(r) ==
    Push(Pop(r, 5), [payload |-> At(r, 5, 5),
                     opcode |-> At(r, 5, 1), index |-> At(r, 5, 2),
                     value |-> At(r, 5, 3), option |-> At(r, 5, 4)])

Event_deserialize(r, e) ==
    Event_fields(deserialize_EventPayload(
                     read4b(read8b(read4b(read4b(r)))), e.payload))

\* EventResult::serialize, lines 398-403.
EventResult_serialize(w, e) ==
    serialize_EventResposnePayload(value8b(w, e.return_value), e.payload)

DefaultEventResult == [payload |-> DefaultPayload, return_value |-> <<0, 0>>]

EventResult_fields(r) ==
    Push(Pop(r, 2), [payload |-> At(r, 2, 2), return_value |-> At(r, 2, 1)])

EventResult_deserialize(r, e) ==
    EventResult_fields(deserialize_EventResposnePayload(read8b(r), e.payload))

\* Mutant: no presence byte, an absent value is written as 0.0.
optional4b_noflag(w, value) == value4b(w, IF value = <<>> THEN 0 ELSE value[1])

\* s.ext(value, bitsery::ext::StdOptional(), ... s.value4b(v)): a presence
\* byte, then the value when present.  An optional is <<>> or <<x>>.
optional4b(w, value) ==
    IF value = <<>> THEN boolValue(w, FALSE)
    ELSE value4b(boolValue(w, TRUE), value[1])

\* The optional holding the value read last.
emplace(r) == Retop(r, <<Top(r)>>)

\* StdOptional::deserialize on the presence flag read last.
readOptional4b_value(r) ==
    IF Top(r) THEN emplace(read4b(Pop(r, 1))) ELSE Retop(r, <<>>)

readOptional4b(r) == readOptional4b_value(readBool(r))

\* Parameter::serialize, lines 414-419.
Parameter_serialize(w, p) == optional4b(value4b(w, p.index), p.value)

Parameter_fields(r) ==
    Push(Pop(r, 2), [index |-> At(r, 2, 1), value |-> At(r, 2, 2)])

Parameter_deserialize(r) == Parameter_fields(readOptional4b(read4b(r)))

\* ParameterResult::serialize, lines 430-434.
ParameterResult_serialize(w, p) == optional4b(w, p.value)

valueTop(r) == Retop(r, [value |-> Top(r)])

ParameterResult_deserialize(r) == valueTop(readOptional4b(r))

\* The elements of `buffers`, runs <<n, channel>>, each element written
\* with container4b.
RECURSIVE writeChannels(_, _)
writeChannels(w, buffers) ==
    IF buffers = <<>> THEN w
    ELSE LET one == container4b([w EXCEPT !.buf = <<>>], buffers[1][2], max_buffer_size)
         IN  writeChannels([one EXCEPT !.buf = Cat(w.buf, Times(one.buf, buffers[1][1]))],
                           Tail(buffers))

\* n elements read one after the other, each with container4b; `done` are
\* the elements read so far.  Elements whose bytes repeat those of the one
\* just read are read as the same value, in one step.  After an error every
\* element reads as empty.
RECURSIVE readChannels(_, _, _)
\* c is the reader after one element, which took `used` bytes, and q the
\* number of elements whose bytes are those of that element.
readChannels_next(r, n, done, c, used, q) ==
    readChannels([Pop(c, 1) EXCEPT !.buf = Drop(r.buf, q * used)], n - q,
                 PushRun(done, q, Top(c)))

readChannels_count(r, n, done, c, used) ==
    readChannels_next(r, n, done, c, used,
        IF c.err # "NoError" THEN 1
        ELSE CHOOSE j \in 1..n :
               /\ Take(r.buf, j * used) = Times(Take(r.buf, used), j)
               /\ j < n => Take(r.buf, (j + 1) * used)
                              # Times(Take(r.buf, used), j + 1))

readChannels_repeat(r, n, done, c) ==
    readChannels_count(r, n, done, c, BLen(r.buf) - BLen(c.buf))

readChannels(r, n, done) ==
    IF n = 0 THEN Push(r, done)
    ELSE IF r.err # "NoError" THEN Push(r, PushRun(done, n, <<>>))
    ELSE readChannels_repeat(r, n, done, readContainer4b(r, max_buffer_size))

\* Mutant: sample_frames is written before the buffers.
AudioBuffers_serialize_swapped(w, a) ==
    writeChannels(writeSize(assertion(value4b(w, a.sample_frames),
                                      Count(a.buffers) <= max_audio_channels),
                            Count(a.buffers)),
                  a.buffers)

\* AudioBuffers::serialize, lines 453-458.
AudioBuffers_serialize(w, a) ==
    value4b(writeChannels(writeSize(assertion(w, Count(a.buffers) <= max_audio_channels),
                                    Count(a.buffers)),
                          a.buffers),
            a.sample_frames)

AudioBuffers_fields(r) ==
    Push(Pop(r, 2), [buffers |-> At(r, 2, 1), sample_frames |-> At(r, 2, 2)])

\* The elements of `buffers`, their number being the value read last.
readBuffers(r) == readChannels(Pop(r, 1), Top(r), <<>>)

AudioBuffers_deserialize(r) ==
    AudioBuffers_fields(read4b(readBuffers(readSize(r, max_audio_channels))))

(***************************************************************************)
(* Encoding and decoding one message of a given kind.                      *)
(***************************************************************************)
Kinds == {"Event", "EventResult", "Parameter", "ParameterResult",
          "AudioBuffers", "AEffect"}

\* The writer after serializing message m of kind k.
Serialized(k, m, chk, bits) ==
    CASE k = "Event" -> Event_serialize(NewWriter(chk, bits), m)
      [] k = "EventResult" -> EventResult_serialize(NewWriter(chk, bits), m)
      [] k = "Parameter" -> Parameter_serialize(NewWriter(chk, bits), m)
      [] k = "ParameterResult" -> ParameterResult_serialize(NewWriter(chk, bits), m)
      [] k = "AudioBuffers" -> AudioBuffers_serialize(NewWriter(chk, bits), m)
      [] k = "AEffect" -> serialize_AEffect(NewWriter(chk, bits), m)

\* [ok, bytes]: whether the process got through the serialization, and the
\* bytes it then sends.
sent(w) == [ok |-> w.ok, bytes |-> IF w.ok THEN w.buf ELSE <<>>]

Encode(k, m, chk, bits) == sent(Serialized(k, m, chk, bits))

\* The read result of deserializing a message of kind k; an AEffect is read
\* into the receiver's existing instance `into`, the others into a
\* default-constructed object.
Deserialized(k, bs, bits, into) ==
    CASE k = "Event" -> Event_deserialize(NewReader(bs, bits), DefaultEvent)
      [] k = "EventResult" ->
             EventResult_deserialize(NewReader(bs, bits), DefaultEventResult)
      [] k = "Parameter" -> Parameter_deserialize(NewReader(bs, bits))
      [] k = "ParameterResult" -> ParameterResult_deserialize(NewReader(bs, bits))
      [] k = "AudioBuffers" -> AudioBuffers_deserialize(NewReader(bs, bits))
      [] k = "AEffect" -> deserialize_AEffect(NewReader(bs, bits), into)

\* [ok, err, v]: bitsery::quickDeserialization's outcome.  ok is its
\* `second`, isCompletedSuccessfully(): no error and every byte consumed.
completed(r) ==
    [v |-> Top(r), ok |-> r.err = "NoError" /\ r.buf = <<>>, err |-> r.err]

Decode(k, bs, bits, into) == completed(Deserialized(k, bs, bits, into))

(***************************************************************************)
(* The values the model sends.  Container lengths are the small lengths    *)
(* 0..MaxSmallLen and, for each limit, the limit itself and one above it.  *)
(***************************************************************************)
MaxSmallLen == 2

\* The discriminants 0..MaxDiscriminant are put on the wire by Tamper.
MaxDiscriminant == 15

Around(limit) == (0..MaxSmallLen) \cup {limit, limit + 1}

\* n bytes: all 'A', or a NUL followed by 'B's.
Fill(n, f) ==
    IF f = 0 \/ n = 0 THEN Rep(n, 65) ELSE Cat(Rep(1, 0), Rep(n - 1, 66))

Fills(lens) == {Fill(n, f) : n \in lens, f \in {0, 1}}

\* 0.0, 0.75, -0.0, a NaN and 0x3f3f3f3f as IEEE-754 bit patterns.
Floats == {0, 1061158912, -2147483647 - 1, -1, 1061109567}

Int64s == {<<0, 0>>, <<-1, -1>>, <<-1, 0>>, <<7, 1>>, <<0, -2147483647 - 1>>}

\* n floats: all 0x3f3f3f3f, or 0.75 followed by zeros.
Samples(n, f) ==
    IF f = 0 THEN Rep(n, 1061109567)
    ELSE IF n = 0 THEN <<>> ELSE << <<1, 1061158912>> >> \o Rep(n - 1, 0)

\* A batch of n events: all the same event, or a different one first.
EventBatch(n, f) ==
    IF f = 0 THEN Rep(n, Rep(VstEvent_dump_size, 7))
    ELSE IF n = 0 THEN <<>>
    ELSE << <<1, Cat(Rep(1, 1), Rep(VstEvent_dump_size - 1, 0))>> >>
         \o Rep(n - 1, Rep(VstEvent_dump_size, 7))

MidiLens == Around(max_midi_events(64)) \cup {max_midi_events(32), max_midi_events(32) + 1}

SomePtrs == [dispatcher |-> 4096, process |-> 4112, setParameter |-> 4128,
             getParameter |-> 4144, ptr3 |-> 8192, user |-> 0,
             processReplacing |-> 4160]

\* 'VstP', two programs, three parameters, stereo in and out.
SomeAEffect ==
    [magic |-> 1450406992, numPrograms |-> 2, numParams |-> 3, numInputs |-> 2,
     numOutputs |-> 2, flags |-> 17, initialDelay |-> 64, empty3a |-> 0,
     empty3b |-> -1, unkown_float |-> 1065353216, uniqueID |-> 1094861636,
     version |-> 1000, ptrs |-> SomePtrs]

AEffects == {DefaultAEffect, SomeAEffect, [SomeAEffect EXCEPT !.ptrs = NullPtrs]}

OtherPtrs == [dispatcher |-> 28672, process |-> 28688, setParameter |-> 28704,
              getParameter |-> 28720, ptr3 |-> 0, user |-> 12288,
              processReplacing |-> 28736]

\* The AEffect instances a receiver reads into.
Receivers ==
    {DefaultAEffect, SomeAEffect, [DefaultAEffect EXCEPT !.ptrs = OtherPtrs]}

SomeVstParameterProperties(f) ==
    [flags |-> 5,
     stepFloat |-> 1061158912, smallStepFloat |-> 0, largeStepFloat |-> -1,
     label |-> Fill(label_size, f), minInteger |-> -10,
     maxInteger |-> 10, stepInteger |-> 1, largeStepInteger |-> 256,
     shortLabel |-> Fill(shortLabel_size, f), displayIndex |-> -1,
     category |-> 2, numParametersInCategory |-> 300, reserved |-> 0,
     categoryLabel |-> Fill(categoryLabel_size, f),
     future |-> Rep(future_size, 0)]

SomeVstTimeInfo(f) ==
    [flags |-> 512 + f,
     samplePos |-> <<0, 1083129856>>, sampleRate |-> <<0, 1088783360>>,
     nanoSeconds |-> <<-1, 5>>, ppqPos |-> <<0, 0>>,
     tempo |-> <<0, 1079902208>>, barStartPos |-> <<f, 0>>,
     cycleStartPos |-> <<0, 0>>, cycleEndPos |-> <<0, -2147483647 - 1>>,
     timeSigNumerator |-> 4, timeSigDenominator |-> 4,
     empty3 |-> Rep(empty3_size, 0)]

EventPayloadData(t) ==
    CASE t = "string" -> Fills(Around(max_string_length))
      [] t = "vector_uint8_t" -> Fills(Around(binary_buffer_size))
      [] t = "native_size_t" -> Int64s
      [] t = "AEffect" -> AEffects
      [] t = "DynamicVstEvents" -> {EventBatch(n, f) : n \in MidiLens, f \in {0, 1}}
      [] t = "VstIOProperties" ->
             {[data |-> Fill(VstIOProperties_data_size, f)] : f \in {0, 1}}
      [] t = "VstMidiKeyName" ->
             {[data |-> Fill(VstMidiKeyName_data_size, f)] : f \in {0, 1}}
      [] t = "VstParameterProperties" ->
             {SomeVstParameterProperties(f) : f \in {0, 1}}
      [] t = "VstRect" ->
             {[top |-> 0, left |-> 0, right |-> 640, bottom |-> 480],
              [top |-> -1, left |-> -32768, right |-> 32767, bottom |-> 255]}
      [] t = "VstTimeInfo" -> {SomeVstTimeInfo(f) : f \in {0, 1}}
      [] OTHER -> {<<>>}

\* opcode, index, value, option of the Events sent.
EventHeaders ==
    {[opcode |-> 0, index |-> 0, value |-> <<0, 0>>, option |-> 0],
     [opcode |-> 42, index |-> -1, value |-> <<-1, -1>>, option |-> 1061158912],
     [opcode |-> -2147483647 - 1, index |-> 2147483647, value |-> <<7, 1>>,
      option |-> -1]}

AudioBufferSets ==
    {[buffers |-> IF ragged = 1 /\ c > 0
                  THEN Rep(c - 1, Samples(n, f)) \o Rep(1, Samples(n + 1, f))
                  ELSE Rep(c, Samples(n, f)),
      sample_frames |-> IF d = 2 THEN -1 - n ELSE n + d] :
        c \in Around(max_audio_channels), n \in Around(max_buffer_size),
        f \in {0, 1}, ragged \in {0, 1}, d \in {0, 1, 2}}

(***************************************************************************)
(* DynamicVstEvents, lines 171-203.  serialization.h declares its          *)
(* constructor and as_c_events(); what they do is taken from the comments  *)
(* of the class and from the specification: the constructor copies the     *)
(* events that the VstEvents points to, one by one, into `events`, and     *)
(* as_c_events() builds a VstEvents whose pointers point to the elements   *)
(* of `events`.  A VstEvents is a record of numEvents and of `events`, its *)
(* array of pointers; a pointer is an address, and the address of an       *)
(* element of a vector is its index.                                       *)
(***************************************************************************)
\* The run-length encoded list of the elements of sequence s (by halves).
RECURSIVE RunsOf(_)
RunsOf(s) ==
    IF s = <<>> THEN <<>>
    ELSE IF Len(s) = 1 THEN << <<1, s[1]>> >>
    ELSE Cat(RunsOf(SubSeq(s, 1, Len(s) \div 2)),
             RunsOf(SubSeq(s, Len(s) \div 2 + 1, Len(s))))

\* Mutant: the events are taken to lie one after the other in memory, the
\* array of pointers is not followed.
DynamicVstEvents_contiguous(c, mem) ==
    RunsOf([i \in 1..c.numEvents |-> mem[i]])

\* explicit DynamicVstEvents(const VstEvents& c_events): the vector of the
\* events *c_events.events[i], i < numEvents; mem is the caller's memory.
DynamicVstEvents(c, mem) ==
    RunsOf([i \in 1..c.numEvents |-> mem[c.events[i]]])

\* VstEvents& as_c_events(): built in vst_events_buffer, with a pointer to
\* each element of `events`.
as_c_events(events) ==
    [events |-> [i \in 1..Count(events) |-> i], numEvents |-> Count(events)]

\* The VstEvent at address a of a caller who has n of them: the first four
\* and the last differ from all others (in their first byte where the
\* events are few, in all their bytes where they are many).
SomeVstEvent(a, n) ==
    IF a <= 4 \/ a = n
    THEN IF n <= 5
         THEN Cat(Rep(1, a), Rep(VstEvent_dump_size - 1, 0))
         ELSE Rep(VstEvent_dump_size, a % 256)
    ELSE Rep(VstEvent_dump_size, 7)

CallerMemory(n) == [a \in 1..n |-> SomeVstEvent(a, n)]

\* A VstEvents of n events: in the order of their addresses, in the reverse
\* order, or the same event n times.
CEvents(n, f) ==
    [events |-> [i \in 1..n |-> CASE f = 0 -> i [] f = 1 -> n + 1 - i
                                  [] OTHER -> 1],
     numEvents |-> n]

\* The sizes of the batches that callers pass.
BatchSizes == (0..MaxSmallLen) \cup {5, max_midi_events(64)}

(***************************************************************************)
(* One message on its way from one process to the other.                   *)
(*   hostBits  the pointer width of the Wine host (the plugin's is 64)     *)
(*   asserts   whether the sending build has assert() enabled              *)
(*   pc        idle -> ready -> sent -> received, or ready -> aborted      *)
(*   sender    "plugin" or "host"                                          *)
(*   kind, msg the message serialized; rxEffect the receiver's AEffect     *)
(*   wire      the bytes in flight; tampered: a discriminant was replaced  *)
(*   out       the receiver's Decode outcome                               *)
(*   c_events  the VstEvents a caller has passed, when the message was     *)
(*             built from one; memory: the caller's VstEvent objects, by   *)
(*             address                                                     *)
(*   view      the VstEvents that as_c_events() has built in the receiver  *)
(* chan, depth belong to the exchange protocol further down.               *)
(***************************************************************************)
VARIABLES hostBits, asserts, pc, sender, kind, msg, rxEffect, wire, tampered,
          out, c_events, memory, view, chan, depth

abi == <<c_events, memory, view>>

codec == <<hostBits, asserts, pc, sender, kind, msg, rxEffect, wire, tampered,
           out, c_events, memory, view>>

vars == <<hostBits, asserts, pc, sender, kind, msg, rxEffect, wire, tampered,
          out, c_events, memory, view, chan, depth>>

Bits(p) == IF p = "plugin" THEN 64 ELSE hostBits

Peer(p) == IF p = "plugin" THEN "host" ELSE "plugin"

TypeOK ==
    /\ hostBits \in {32, 64}
    /\ asserts \in BOOLEAN
    /\ pc \in {"idle", "ready", "sent", "received", "aborted"}
    /\ sender \in {"plugin", "host"}
    /\ kind \in Kinds \cup {"none"}
    /\ tampered \in BOOLEAN

Idle ==
    /\ pc = "idle"
    /\ kind = "none"
    /\ msg = <<>>
    /\ rxEffect = DefaultAEffect
    /\ wire = <<>>
    /\ tampered = FALSE
    /\ out = <<>>
    /\ c_events = <<>>
    /\ memory = <<>>
    /\ view = <<>>

(***************************************************************************)
(* The exchanges (spec.md sections 5 and 6).  The processes talk over four  *)
(* logical channels; each carries requests one way and responses back.      *)
(*   chan[c].req    the requests sent and not yet taken by the handler       *)
(*   chan[c].serving      the request the handler is working on              *)
(*   chan[c].resp   the responses sent and not yet received                  *)
(*   chan[c].outstanding  the requests whose caller awaits the response      *)
(*   depth   of the control thread's call across the bridge: 0 no call,     *)
(*           1 the plugin is running a dispatch call, 2 the plugin is        *)
(*           inside a host callback it made from within that call           *)
(***************************************************************************)
Channels == {"dispatch", "callback", "parameters", "process"}

\* The process whose threads send the requests of channel c.
Caller(c) == IF c = "callback" THEN "host" ELSE "plugin"

RequestKind(c) ==
    CASE c = "dispatch" -> "Event"
      [] c = "callback" -> "Event"
      [] c = "parameters" -> "Parameter"
      [] c = "process" -> "AudioBuffers"

\* Mutant: a request is answered by a message of its own kind.
ResponseKind_echo(k) == k

ResponseKind(k) ==
    CASE k = "Event" -> "EventResult"
      [] k = "Parameter" -> "ParameterResult"
      [] k = "AudioBuffers" -> "AudioBuffers"

Quiet ==
    /\ chan = [c \in Channels |->
                 [req |-> <<>>, serving |-> <<>>, resp |-> <<>>,
                  outstanding |-> <<>>]]
    /\ depth = 0

\* A process has built message m of kind k and is about to write it.
Compose(p, k, m, rx) ==
    /\ pc = "idle"
    /\ pc' = "ready"
    /\ sender' = p
    /\ kind' = k
    /\ msg' = m
    /\ rxEffect' = rx
    /\ view' = <<>>
    /\ UNCHANGED <<hostBits, asserts, wire, tampered, out, c_events, memory,
                   chan, depth>>

\* Events travel both ways: dispatch calls and host callbacks.
ComposeEvent ==
    \E p \in {"plugin", "host"}, h \in EventHeaders, i \in 1..Len(EventPayload) :
        \E d \in EventPayloadData(EventPayload[i]) :
            Compose(p, "Event",
                    [payload |-> [type |-> EventPayload[i], d |-> d],
                     opcode |-> h.opcode, index |-> h.index, value |-> h.value,
                     option |-> h.option],
                    DefaultAEffect)

ComposeEventResult ==
    \E p \in {"plugin", "host"}, rv \in Int64s, i \in 1..Len(EventResposnePayload) :
        \E d \in EventPayloadData(EventResposnePayload[i]) :
            Compose(p, "EventResult",
                    [payload |-> [type |-> EventResposnePayload[i], d |-> d],
                     return_value |-> rv],
                    DefaultAEffect)

\* getParameter and setParameter calls go from the plugin to the host.
ComposeParameter ==
    \E i \in {0, 3, -1}, v \in {<<>>} \cup {<<f>> : f \in Floats} :
        Compose("plugin", "Parameter", [index |-> i, value |-> v], DefaultAEffect)

ComposeParameterResult ==
    \E v \in {<<>>} \cup {<<f>> : f \in Floats} :
        Compose("host", "ParameterResult", [value |-> v], DefaultAEffect)

\* Audio goes to the host and comes back processed.
ComposeAudioBuffers ==
    \E p \in {"plugin", "host"}, a \in AudioBufferSets :
        Compose(p, "AudioBuffers", a, DefaultAEffect)

\* The host sends its plugin's AEffect; the plugin reads it into its own.
ComposeAEffect ==
    \E a \in AEffects, rx \in Receivers : Compose("host", "AEffect", a, rx)

\* effProcessEvents and audioMasterProcessEvents: the caller passes a
\* VstEvents and the process builds the Event from it.
ComposeVstEvents ==
    \E p \in {"plugin", "host"}, n \in BatchSizes, f \in {0, 1, 2} :
        /\ pc = "idle"
        /\ pc' = "ready"
        /\ sender' = p
        /\ kind' = "Event"
        /\ msg' = [payload |->
                       [type |-> "DynamicVstEvents",
                        d |-> DynamicVstEvents(CEvents(n, f), CallerMemory(n))],
                   opcode |-> 25, index |-> 0, value |-> <<0, 0>>,
                   option |-> 0]
        /\ rxEffect' = DefaultAEffect
        /\ c_events' = <<CEvents(n, f)>>
        /\ memory' = CallerMemory(n)
        /\ view' = <<>>
        /\ UNCHANGED <<hostBits, asserts, wire, tampered, out, chan, depth>>

\* The sender serializes the message: the bytes go out, or an assertion of
\* the Serializer fails and the process aborts.
EncodeStep ==
    /\ pc = "ready"
    /\ pc' = IF Encode(kind, msg, asserts, Bits(sender)).ok
             THEN "sent" ELSE "aborted"
    /\ wire' = Encode(kind, msg, asserts, Bits(sender)).bytes
    /\ UNCHANGED <<hostBits, asserts, sender, kind, msg, rxEffect, tampered,
                   out, abi, chan, depth>>

\* The offset of the variant's discriminant in an Event and an EventResult.
DiscriminantOffset(k) == IF k = "Event" THEN 4 + 4 + 8 + 4 ELSE 8

\* The bytes received are not those of any Serializer: the discriminant of
\* the payload is some other value.
Tamper ==
    /\ pc = "sent"
    /\ kind \in {"Event", "EventResult"}
    /\ ~tampered
    /\ \E d \in 0..MaxDiscriminant :
         /\ Rep(1, d) # Take(Drop(wire, DiscriminantOffset(kind)), 1)
         /\ wire' = Cat(Cat(Take(wire, DiscriminantOffset(kind)), Rep(1, d)),
                        Drop(wire, DiscriminantOffset(kind) + 1))
    /\ tampered' = TRUE
    /\ UNCHANGED <<hostBits, asserts, pc, sender, kind, msg, rxEffect, out,
                   abi, chan, depth>>

\* The receiver deserializes the bytes.
DecodeStep ==
    /\ pc = "sent"
    /\ out' = Decode(kind, wire, Bits(Peer(sender)), rxEffect)
    /\ pc' = "received"
    /\ UNCHANGED <<hostBits, asserts, sender, kind, msg, rxEffect, wire,
                   tampered, abi, chan, depth>>

\* The receiver of a batch of events rebuilds the VstEvents to pass on.
AsCEvents ==
    /\ pc = "received"
    /\ kind = "Event"
    /\ out.ok
    /\ out.v.payload.type = "DynamicVstEvents"
    /\ view = <<>>
    /\ view' = <<as_c_events(out.v.payload.d)>>
    /\ UNCHANGED <<hostBits, asserts, pc, sender, kind, msg, rxEffect, wire,
                   tampered, out, c_events, memory, chan, depth>>

\* The message is consumed (or the sender is gone): the next one.  The
\* objects of the call go out of scope; a VstEvents that as_c_events() has
\* handed out is still in the hands of whoever got it.
Finish ==
    /\ pc \in {"received", "aborted"}
    /\ pc' = "idle"
    /\ kind' = "none"
    /\ msg' = <<>>
    /\ rxEffect' = DefaultAEffect
    /\ wire' = <<>>
    /\ tampered' = FALSE
    /\ out' = <<>>
    /\ c_events' = <<>>
    /\ memory' = <<>>
    /\ UNCHANGED <<hostBits, asserts, sender, view, chan, depth>>

Init ==
    /\ hostBits \in {32, 64}
    /\ asserts \in BOOLEAN
    /\ sender = "plugin"
    /\ Idle
    /\ Quiet

Next ==
    \/ ComposeEvent
    \/ ComposeEventResult
    \/ ComposeParameter
    \/ ComposeParameterResult
    \/ ComposeAudioBuffers
    \/ ComposeAEffect
    \/ ComposeVstEvents
    \/ EncodeStep
    \/ Tamper
    \/ DecodeStep
    \/ AsCEvents
    \/ Finish

Spec == Init /\ [][Next]_vars

(***************************************************************************)
(* The exchange protocol.  A caller sends a request and blocks until the    *)
(* response; the handler of the channel in the other process takes the      *)
(* request, makes the call and replies.  While the plugin runs a dispatch   *)
(* call it may call back into the host: the thread that handles the         *)
(* dispatch call is then the caller of an exchange on the callback channel. *)
(***************************************************************************)
\* Mutant: one blocking primitive per process: a process inside an outbound
\* call of its own takes no inbound call.
Accepts_blocking(c) ==
    /\ chan[c].serving = <<>>
    /\ \A o \in Channels :
         Caller(o) = Peer(Caller(c)) => chan[o].outstanding = <<>>

\* The handler of channel c is free to take an inbound call, whatever
\* outbound calls its process is blocked in.
Accepts(c) == chan[c].serving = <<>>

\* A thread calls across the bridge on channel c and blocks.  `nested`: the
\* call is a host callback made by the plugin from within a dispatch call.
Call(c, nested) ==
    /\ chan[c].outstanding = <<>>
    /\ IF nested THEN c = "callback" /\ depth = 1 ELSE TRUE
    /\ chan' = [chan EXCEPT
                  ![c].req = Append(@, RequestKind(c)),
                  ![c].outstanding = <<[kind |-> RequestKind(c),
                                        nested |-> nested]>>]
    /\ depth' = IF nested THEN 2 ELSE depth
    /\ UNCHANGED codec

\* The handler takes the next request of channel c and starts the call.
Serve(c) ==
    /\ chan[c].req # <<>>
    /\ Accepts(c)
    /\ chan' = [chan EXCEPT ![c].req = Tail(@), ![c].serving = <<Head(chan[c].req)>>]
    /\ depth' = IF c = "dispatch" THEN 1 ELSE depth
    /\ UNCHANGED codec

\* The call has returned: the handler sends the response.  A dispatch call
\* does not return while the plugin is inside a callback made from it.
Reply(c) ==
    /\ chan[c].serving # <<>>
    /\ c = "dispatch" => depth = 1
    /\ chan' = [chan EXCEPT
                  ![c].serving = <<>>,
                  ![c].resp = Append(@, ResponseKind(chan[c].serving[1]))]
    /\ depth' = IF c = "dispatch" THEN 0 ELSE depth
    /\ UNCHANGED codec

\* The caller receives the response and goes on.
Receive(c) ==
    /\ chan[c].resp # <<>>
    /\ chan[c].outstanding # <<>>
    /\ chan' = [chan EXCEPT ![c].resp = Tail(@), ![c].outstanding = <<>>]
    /\ depth' = IF chan[c].outstanding[1].nested THEN 1 ELSE depth
    /\ UNCHANGED codec

ExchangeInit ==
    /\ hostBits = 64
    /\ asserts = TRUE
    /\ sender = "plugin"
    /\ Idle
    /\ Quiet

ExchangeNext ==
    \/ \E c \in Channels : Call(c, FALSE)
    \/ Call("callback", TRUE)
    \/ \E c \in Channels : Serve(c)
    \/ \E c \in Channels : Reply(c)
    \/ \E c \in Channels : Receive(c)

ExchangeSpec == ExchangeInit /\ [][ExchangeNext]_vars

(***************************************************************************)
(* Properties of the messages.  The numbers in them are those of the       *)
(* specification, written out.                                             *)
(***************************************************************************)
\* The message is an Event that carries a batch of MIDI events.
IsBatch == kind = "Event" /\ msg.payload.type = "DynamicVstEvents"

\* Every container of message m of kind k is within its declared limit.
WithinLimits(k, m) ==
    CASE k \in {"Event", "EventResult"} ->
           (CASE m.payload.type = "string" -> BLen(m.payload.d) <= 64
              [] m.payload.type = "vector_uint8_t" ->
                     BLen(m.payload.d) <= 52428800
              [] m.payload.type = "DynamicVstEvents" ->
                     Count(m.payload.d) <= 2048
              [] OTHER -> TRUE)
      [] k = "AudioBuffers" ->
           /\ Count(m.buffers) <= 32
           /\ \A i \in 1..Len(m.buffers) : Count(m.buffers[i][2]) <= 16384
      [] OTHER -> TRUE

\* A text, a blob, the channel list or a channel of m is above its cap.
AboveCap(k, m) ==
    CASE k \in {"Event", "EventResult"} ->
           (CASE m.payload.type = "string" -> BLen(m.payload.d) > 64
              [] m.payload.type = "vector_uint8_t" ->
                     BLen(m.payload.d) > 52428800
              [] OTHER -> FALSE)
      [] k = "AudioBuffers" ->
           \/ Count(m.buffers) > 32
           \/ \E i \in 1..Len(m.buffers) : Count(m.buffers[i][2]) > 16384
      [] OTHER -> FALSE

\* What of message m a receiver can get: a plugin descriptor without the
\* sender's pointers.
Portable(k, m) ==
    IF k \in {"Event", "EventResult"} /\ m.payload.type = "AEffect"
    THEN [m EXCEPT !.payload.d.ptrs = NullPtrs]
    ELSE m

\* C1: in the 64-bit and in the 32-bit process alike, a batch of up to 2048
\* MIDI events is accepted by encode and by decode and a larger one is
\* rejected by both, so that a batch one side has encoded is decoded by the
\* other.  (Encode rejects by a failed assertion, in builds that have them.)
C1_MidiEventLimit ==
    (IsBatch /\ ~tampered) =>
        /\ pc = "aborted" => Count(msg.payload.d) > 2048
        /\ (asserts /\ pc \in {"sent", "received"}) =>
               Count(msg.payload.d) <= 2048
        /\ pc = "received" => (out.ok <=> Count(msg.payload.d) <= 2048)

\* The audio buffer set invariant: channels that hold samples hold exactly
\* sample_frames of them, at most 32 channels, sample_frames in 0..16384.
ValidAudioBuffers(a) ==
    /\ Count(a.buffers) <= 32
    /\ a.sample_frames \in 0..16384
    /\ \A i \in 1..Len(a.buffers) :
         a.buffers[i][2] # <<>> => Count(a.buffers[i][2]) = a.sample_frames

\* C2: every AudioBuffers value that a decode delivers as successfully
\* decoded satisfies the audio buffer set invariant.
C2_AudioBuffersInvariant ==
    (kind = "AudioBuffers" /\ pc = "received" /\ out.ok) =>
        ValidAudioBuffers(out.v)

\* C3: a message of any shape whose containers are within the declared
\* limits is encoded, and decoding its bytes succeeds and yields a value
\* equal to the original.
C3_RoundTrip ==
    (/\ kind \in {"Event", "EventResult", "Parameter", "ParameterResult",
                  "AudioBuffers"}
     /\ ~tampered
     /\ WithinLimits(kind, msg)) =>
        /\ pc # "aborted"
        /\ pc = "received" => out.ok /\ out.v = Portable(kind, msg)

\* C3 witness: a maximal batch, 2048 events, sent by the 32-bit host has
\* been decoded by the plugin to the same batch.
C3_Witness ==
    /\ pc = "received" /\ IsBatch /\ ~tampered
    /\ sender = "host" /\ hostBits = 32
    /\ Count(msg.payload.d) = 2048
    /\ out.ok /\ out.v = msg

\* C4: a text, blob, channel list or channel above its cap is never
\* delivered as a decoded message: the Serializer's assertion stops it where
\* assertions are compiled in, and the decode fails with an error where it
\* was sent all the same; a message whose containers are at or below their
\* caps is encoded and decoded.
C4_HardCaps ==
    (kind \in {"Event", "EventResult", "AudioBuffers"} /\ ~tampered) =>
        /\ AboveCap(kind, msg) =>
             /\ asserts => pc \notin {"sent", "received"}
             /\ pc = "received" => ~out.ok /\ out.err = "InvalidData"
        /\ WithinLimits(kind, msg) =>
             /\ pc # "aborted"
             /\ pc = "received" => out.ok

\* C4 witness: a blob of 52,428,801 bytes was sent by a build without
\* assertions and its decode has failed.
C4_Witness ==
    /\ pc = "received" /\ kind = "EventResult" /\ ~tampered
    /\ msg.payload.type = "vector_uint8_t"
    /\ BLen(msg.payload.d) = 52428801
    /\ ~out.ok /\ out.err = "InvalidData"

\* C5: Event.value, EventResult.return_value and a native_size_t payload
\* take 8 bytes on the wire whatever the pointer width of the sender; what a
\* process has encoded the other decodes to the same value; and the outcome
\* of encoding a message and of decoding its bytes is the same in a 32-bit
\* and in a 64-bit process: no width and no limit depends on the pointers.
C5_PointerWidth ==
    /\ (kind = "Event" /\ pc \in {"sent", "received"} /\ ~tampered) =>
           /\ Take(Drop(wire, 8), 8) = Bytes8(msg.value)
           /\ msg.payload.type = "native_size_t" =>
                  Drop(wire, 21) = Bytes8(msg.payload.d)
    /\ (kind = "EventResult" /\ pc \in {"sent", "received"} /\ ~tampered) =>
           Take(wire, 8) = Bytes8(msg.return_value)
    /\ (kind \in {"Event", "EventResult"} /\ pc = "received" /\ ~tampered
        /\ asserts) =>
           out.ok /\ out.v = Portable(kind, msg)
    /\ pc = "ready" =>
           Encode(kind, msg, asserts, 32) = Encode(kind, msg, asserts, 64)
    /\ pc = "received" =>
           Decode(kind, wire, 32, rxEffect) = Decode(kind, wire, 64, rxEffect)

\* C6: a message whose payload discriminant is outside the alternatives of
\* its variant (13 or more for an Event, 9 or more for an EventResult) is
\* not decoded successfully.
C6_UnknownDiscriminant ==
    (/\ pc = "received"
     /\ kind \in {"Event", "EventResult"}
     /\ ByteAt(wire, DiscriminantOffset(kind) + 1)
            >= (IF kind = "Event" THEN 13 ELSE 9)) =>
        ~out.ok

\* C7: a Parameter decodes with its value absent exactly when it was sent
\* absent (a get) and with the value sent when it was present (a set); the
\* bytes of a ParameterResult whose value is 0.0 are not those of one whose
\* value is absent, and each decodes to what was sent.
C7_ParameterPresence ==
    /\ (kind = "Parameter" /\ pc = "received") =>
           /\ out.ok
           /\ out.v.index = msg.index
           /\ out.v.value = <<>> <=> msg.value = <<>>
           /\ out.v.value = msg.value
    /\ (kind = "ParameterResult" /\ pc \in {"sent", "received"}) =>
           /\ msg.value # <<>> =>
                  wire # Encode("ParameterResult", [value |-> <<>>], asserts,
                                Bits(sender)).bytes
           /\ pc = "received" => out.ok /\ out.v = msg

\* C7 witness: a ParameterResult holding 0.0 has been decoded as present.
C7_Witness ==
    /\ kind = "ParameterResult" /\ pc = "received"
    /\ msg.value = <<0>>
    /\ out.ok /\ out.v.value = <<0>>

\* C8: the bytes of an AEffect are 48 and are those of the same AEffect
\* with null pointers; decoding them into an existing AEffect gives the
\* sender's twelve numeric fields and the receiver's own pointer fields.
C8_AEffectMerge ==
    kind = "AEffect" =>
        /\ pc \in {"sent", "received"} =>
               /\ BLen(wire) = 48
               /\ wire = Encode("AEffect", [msg EXCEPT !.ptrs = NullPtrs],
                                asserts, Bits(sender)).bytes
        /\ pc = "received" =>
               out.ok /\ out.v = [msg EXCEPT !.ptrs = rxEffect.ptrs]

\* C8 witness: a descriptor with pointers has been read into an instance
\* that has other pointers and other numbers.
C8_Witness ==
    /\ kind = "AEffect" /\ pc = "received"
    /\ msg = SomeAEffect
    /\ rxEffect = [DefaultAEffect EXCEPT !.ptrs = OtherPtrs]
    /\ out.v = [SomeAEffect EXCEPT !.ptrs = OtherPtrs]

(***************************************************************************)
(* Properties of the exchanges.                                            *)
(***************************************************************************)
\* C9: on every logical channel at most one request is outstanding, it is
\* in exactly one place (on its way, being served, or answered), and a
\* response on its way answers the outstanding request with the kind that
\* matches it.
C9_OneResponsePerRequest ==
    \A c \in Channels :
        /\ Len(chan[c].outstanding) <= 1
        /\ Len(chan[c].req) + Len(chan[c].serving) + Len(chan[c].resp)
               = Len(chan[c].outstanding)
        /\ chan[c].resp # <<>> =>
               <<chan[c].outstanding[1].kind, chan[c].resp[1]>>
                   \in {<<"Event", "EventResult">>,
                        <<"Parameter", "ParameterResult">>,
                        <<"AudioBuffers", "AudioBuffers">>}

\* C9 witness: a dispatch call and a getParameter call have both been
\* answered and the responses are on their way.
C9_Witness ==
    /\ chan["dispatch"].resp = <<"EventResult">>
    /\ chan["parameters"].resp = <<"ParameterResult">>
    /\ chan["process"].outstanding # <<>>

\* C10: a callback request that arrives while a dispatch call is awaiting
\* its response can be taken; the dispatch call is not answered before the
\* callback made from within it is; and every outstanding call has a step
\* it can take, or is a dispatch call waiting for such a callback.
C10_Reentrancy ==
    /\ (chan["dispatch"].outstanding # <<>> /\ chan["callback"].req # <<>>) =>
           ENABLED Serve("callback")
    /\ depth = 2 =>
           /\ chan["callback"].outstanding # <<>>
           /\ chan["dispatch"].serving # <<>>
           /\ chan["dispatch"].resp = <<>>
    /\ \A c \in Channels :
           chan[c].outstanding # <<>> =>
               \/ ENABLED (Serve(c) \/ Reply(c) \/ Receive(c))
               \/ c = "dispatch" /\ depth = 2

\* C10 witness: the plugin process, its thread blocked in a dispatch call,
\* is serving the callback the plugin made from within that call.
C10_Witness ==
    /\ depth = 2
    /\ chan["dispatch"].outstanding # <<>>
    /\ chan["callback"].serving # <<>>
    /\ chan["callback"].outstanding[1].nested

(***************************************************************************)
(* Properties of the MIDI event batches.                                   *)
(***************************************************************************)
\* The events that the pointers of VstEvents v point to, in the vector of
\* events `owner`.
PointedTo(v, owner) ==
    [i \in 1..Len(v.events) |-> ByteAt(owner, v.events[i])]

\* C11: a batch of n events, n from 0 to 2048, that a caller has passed as a
\* VstEvents is encoded and decoded; the VstEvents that as_c_events() then
\* builds has n events, and its i-th pointer points to the bytes of the
\* caller's i-th event; its pointers point into the events of the decoded
\* DynamicVstEvents, and once that value is gone no decoded value is there
\* for them to point into.
C11_EventsReconstruction ==
    /\ (c_events # <<>> /\ ~tampered /\ c_events[1].numEvents <= 2048) =>
           /\ pc # "aborted"
           /\ pc = "received" => out.ok
           /\ (pc = "received" /\ view # <<>>) =>
                  /\ view[1].numEvents = c_events[1].numEvents
                  /\ Len(view[1].events) = c_events[1].numEvents
                  /\ PointedTo(view[1], out.v.payload.d)
                         = [i \in 1..c_events[1].numEvents |->
                                memory[c_events[1].events[i]]]
    /\ view # <<>> =>
           IF pc = "received"
           THEN /\ out.ok
                /\ out.v.payload.type = "DynamicVstEvents"
                /\ \A i \in 1..Len(view[1].events) :
                       view[1].events[i] \in 1..Count(out.v.payload.d)
           ELSE out = <<>>

\* C11 witness: five events passed in the reverse order of their addresses
\* have been sent by the 32-bit host and the plugin has rebuilt the
\* VstEvents of five events.
C11_Witness ==
    /\ pc = "received" /\ sender = "host" /\ hostBits = 32
    /\ c_events = <<CEvents(5, 1)>>
    /\ view # <<>>
    /\ view[1].numEvents = 5
    /\ PointedTo(view[1], out.v.payload.d)[1] = SomeVstEvent(5, 5)

(***************************************************************************)
(* Properties of the payloads without data.                                *)
(***************************************************************************)
\* The five alternatives of EventPayload that hold no data, each with its
\* position in std::variant<...> (lines 265-277), counted from 0.
MarkerDiscriminant ==
    [nullptr_t |-> 0, WantsChunkBuffer |-> 6, WantsVstRect |-> 10,
     WantsVstTimeInfo |-> 11, WantsString |-> 12]

\* C12: an Event whose payload is nullptr or one of the four markers is
\* encoded in as many bytes as the same Event with a nullptr payload, its
\* only payload byte being the discriminant; the discriminant is the
\* position of the alternative in the variant's list of types, so that the
\* five differ from each other; and the Event decodes to the alternative
\* that was sent.
C12_MarkerPayloads ==
    (/\ kind = "Event"
     /\ ~tampered
     /\ msg.payload.type \in DOMAIN MarkerDiscriminant) =>
        /\ pc # "aborted"
        /\ pc \in {"sent", "received"} =>
               /\ BLen(wire)
                      = BLen(Encode("Event",
                                    [msg EXCEPT !.payload = DefaultPayload],
                                    asserts, Bits(sender)).bytes)
               /\ BLen(wire) = DiscriminantOffset("Event") + 1
               /\ ByteAt(wire, DiscriminantOffset("Event") + 1)
                      = MarkerDiscriminant[msg.payload.type]
               /\ \A t \in DOMAIN MarkerDiscriminant \ {msg.payload.type} :
                      wire # Encode("Event", [msg EXCEPT !.payload.type = t],
                                    asserts, Bits(sender)).bytes
        /\ pc = "received" =>
               /\ out.ok
               /\ out.v.payload.type = msg.payload.type
               /\ out.v = msg

\* C12 witness: an Event that asks for a chunk has been decoded as one, the
\* handler of its alternative being the tenth and its discriminant 6.
C12_Witness ==
    /\ kind = "Event" /\ pc = "received" /\ ~tampered
    /\ msg.payload.type = "WantsChunkBuffer"
    /\ PositionOf(EventPayloadOverloads, "WantsChunkBuffer") = 10
    /\ ByteAt(wire, 21) = 6
    /\ out.ok /\ out.v.payload.type = "WantsChunkBuffer"

=============================================================================
